---- MODULE Spec2Model ----
(***************************************************************************)
(* A model of the document search engine of this repository:               *)
(*   src/document_processor.py  TfidfRetriever, DocumentProcessor          *)
(* Strings the code splits, trims or lower-cases are sequences of          *)
(* one-character strings; texts handed to the vectorizer are sequences of  *)
(* words.                                                                  *)
(***************************************************************************)
EXTENDS Integers, Sequences, FiniteSets, TLC

VARIABLES
    dp,           \* the DocumentProcessor instance (its fields, as a record)
    uploads,      \* the files present in the upload directory
    sort_stable,  \* whether this build's np.argsort keeps equal keys in index order
    log,          \* history: the process_file calls made so far, <<file, returned>>
    last,         \* the most recent operation and what it returned
    app,          \* app.py's globals doc_processor (dp holds its fields) and processor_initialized
    served,       \* the number of requests app.py has handled
    running,      \* the process_file call that is between its store and its rebuild, if any
    threads       \* the upload requests handled on their own threads, each one's position

vars == <<dp, uploads, sort_stable, log, last, app, served, running, threads>>

appvars == <<app, served, running, threads>>

\* ------------------------------------------------------------------ bounds
\* Direct process_file calls explored on one manager.
MaxCalls == 2

\* Largest corpus (TextUnits of one kind) explored.
MaxUnits == 7

\* ------------------------------------------------------- program constants
\* TfidfVectorizer(max_features=1000, ...)
max_features == 1000

\* k = 10 if doc_type == 'csv' else 5
K_CSV == 10

K_DEFAULT == 5

\* ------------------------------------------------------------ small helpers
Range(s) == {s[i] : i \in 1..Len(s)}

RECURSIVE SumSeq(_)
SumSeq(s) == IF s = <<>> THEN 0 ELSE Head(s) + SumSeq(Tail(s))

\* the sum of f[x] over the x in S
RECURSIVE SumOver(_, _)
SumFrom(f, S, x) == f[x] + SumOver(f, S \ {x})

SumOver(f, S) == IF S = {} THEN 0 ELSE SumFrom(f, S, CHOOSE x \in S : TRUE)

Reverse(s) == [i \in 1..Len(s) |-> s[Len(s) + 1 - i]]

\* All orders in which the elements of a finite set can be listed.
Perms(S) == {p \in [1..Cardinality(S) -> S] : \A x \in S : \E i \in DOMAIN p : p[i] = x}

\* --------------------------------------------------------- str operations
Upper == [a |-> "A", b |-> "B", c |-> "C", d |-> "D", e |-> "E", f |-> "F",
          p |-> "P", s |-> "S", t |-> "T", v |-> "V", x |-> "X"]

\* str.lower() on one character
LowerChar(c) == IF \E l \in DOMAIN Upper : Upper[l] = c
                THEN CHOOSE l \in DOMAIN Upper : Upper[l] = c
                ELSE c

\* str.lower()
Lower(s) == [i \in 1..Len(s) |-> LowerChar(s[i])]

IsSpace(c) == c \in {" ", "\n", "\t"}

RECURSIVE LStrip(_)
LStrip(s) == IF s # <<>> /\ IsSpace(Head(s)) THEN LStrip(Tail(s)) ELSE s

\* str.strip()
Strip(s) == Reverse(LStrip(Reverse(LStrip(s))))

\* s.split(sep)[-1]: what follows the last sep (all of s when there is none)
RECURSIVE LastField(_, _)
LastField(s, sep) ==
    IF \E i \in 1..Len(s) : s[i] = sep
    THEN LastField(Tail(s), sep)
    ELSE s

\* os.path.basename
Basename(path) == LastField(path, "/")

\* ----------------------------------------------------------- the file system
\* The files the model knows, by a short name; Path is the path string the code sees.
Files == {"a.csv", "empty.csv", "c.pdf", "d.PDF", "bad.pdf", "notes.txt", "gone.csv"}

Path ==
    [f \in Files |->
        CASE f = "a.csv"     -> <<"u", "/", "a", ".", "c", "s", "v">>
          [] f = "empty.csv" -> <<"u", "/", "e", ".", "c", "s", "v">>
          [] f = "c.pdf"     -> <<"u", "/", "c", ".", "p", "d", "f">>
          [] f = "d.PDF"     -> <<"u", "/", "d", ".", "P", "D", "F">>
          [] f = "bad.pdf"   -> <<"u", "/", "b", ".", "p", "d", "f">>
          [] f = "notes.txt" -> <<"u", "/", "n", ".", "t", "x", "t">>
          [] f = "gone.csv"  -> <<"u", "/", "g", ".", "c", "s", "v">>]

\* What the loader of the file's kind does with it: the page_content of each
\* Document it returns, in order, or raised when it fails on malformed content.
\* "the" is an English stop word; d.PDF holds nothing but stop words.
Pages(seq) == [raised |-> FALSE, pages |-> seq]

Load ==
    [f \in Files |->
        CASE f = "a.csv"     -> Pages(<< <<"alice">>, <<"bob">> >>)
          [] f = "empty.csv" -> Pages(<< >>)
          [] f = "c.pdf"     -> Pages(<< <<"alice", "report">>, <<"bob">>, <<"the">> >>)
          [] f = "d.PDF"     -> Pages(<< <<"the">> >>)
          [] f = "bad.pdf"   -> [raised |-> TRUE, pages |-> << >>]
          [] f = "notes.txt" -> Pages(<< <<"alice">> >>)
          [] f = "gone.csv"  -> Pages(<< <<"bob">> >>)]

\* The upload directory when the manager is constructed: gone.csv is not there.
InitialUploads == Files \ {"gone.csv"}

\* The questions asked.
Questions == { <<"alice">>, <<"bob", "report">>, <<"zed", "the">> }

Kinds == {"pdf", "docx", "csv"}

\* for ext in ['pdf', 'docx', 'csv']
KindOrder == <<"pdf", "docx", "csv">>

\* The spelling of a kind's name.
Spell ==
    [k \in Kinds |->
        CASE k = "pdf"  -> <<"p", "d", "f">>
          [] k = "docx" -> <<"d", "o", "c", "x">>
          [] k = "csv"  -> <<"c", "s", "v">>]

\* ------------------------------------------------- sklearn: TfidfVectorizer
\* stop_words='english', as far as the words of the model go
StopWords == {"the"}

RECURSIVE DropStopWords(_)
DropStopWords(text) ==
    IF text = <<>> THEN <<>>
    ELSE IF Head(text) \in StopWords THEN DropStopWords(Tail(text))
    ELSE <<Head(text)>> \o DropStopWords(Tail(text))

\* ngram_range=(1, 2): every word of w, then every pair of neighbours in w.
\* A feature is a sequence of one or two words.
NGrams(w) ==
    IF w = << >> THEN << >>
    ELSE [i \in 1..Len(w) |-> <<w[i]>>] \o [i \in 1..(Len(w) - 1) |-> <<w[i], w[i + 1]>>]

\* The features of a text: stop words go first, n-grams are built from what is left.
Analyze(text) == NGrams(DropStopWords(text))

Count(t, a) == Cardinality({i \in 1..Len(a) : a[i] = t})

\* how many times feature t occurs in a text
Tf(t, text) == Count(t, Analyze(text))

\* in how many of the texts feature t occurs
Df(t, texts) == Cardinality({i \in 1..Len(texts) : Tf(t, texts[i]) > 0})

Features(texts) == UNION {Range(Analyze(texts[i])) : i \in 1..Len(texts)}

TotalTf(t, texts) == SumSeq([i \in 1..Len(texts) |-> Tf(t, texts[i])])

\* max_features keeps the most frequent features, and only when there are more
\* than max_features of them.
LimitFeatures(all, texts) ==
    IF Cardinality(all) <= max_features
    THEN all
    ELSE CHOOSE V \in SUBSET all :
            /\ Cardinality(V) = max_features
            /\ \A t \in V, u \in all \ V : TotalTf(t, texts) >= TotalTf(u, texts)

\* The vocabulary fit() learns from the texts.
FitVocabulary(texts) == LimitFeatures(Features(texts), texts)

\* smooth idf, ln((1 + n) / (1 + df)) + 1, in tenths: IdfTable[n][df]
IdfTable ==
    << <<10>>,
       <<14, 10>>,
       <<17, 13, 10>>,
       <<19, 15, 12, 10>>,
       <<21, 17, 14, 12, 10>>,
       <<23, 18, 16, 13, 12, 10>>,
       <<24, 20, 17, 15, 13, 11, 10>>,
       <<25, 21, 18, 16, 14, 13, 11, 10>>,
       <<26, 22, 19, 17, 15, 14, 12, 11, 10>>,
       <<27, 23, 20, 18, 16, 15, 13, 12, 11, 10>>,
       <<28, 24, 21, 19, 17, 15, 14, 13, 12, 11, 10>>,
       <<29, 25, 22, 20, 18, 16, 15, 14, 13, 12, 11, 10>>,
       <<29, 25, 23, 20, 18, 17, 16, 14, 13, 12, 12, 11, 10>>,
       <<30, 26, 23, 21, 19, 18, 16, 15, 14, 13, 12, 11, 11, 10>>,
       <<31, 27, 24, 22, 20, 18, 17, 16, 15, 14, 13, 12, 11, 11, 10>>,
       <<31, 27, 24, 22, 20, 19, 18, 16, 15, 14, 13, 13, 12, 11, 11, 10>> >>

Idf(t, texts) == IdfTable[Len(texts)][Df(t, texts)]

\* transform(): the tf-idf vector of a text under a fitted vocabulary and idf,
\* before length normalisation. A feature outside the vocabulary weighs nothing.
TfidfVector(text, vocabulary, idf) == [t \in vocabulary |-> Tf(t, text) * idf[t]]

Dot(u, v) == SumOver([t \in DOMAIN u |-> u[t] * v[t]], DOMAIN u)

\* floor of the square root, by bisection
RECURSIVE ISqrtIn(_, _, _)
ISqrtTry(x, lo, hi, mid) ==
    IF mid * mid <= x THEN ISqrtIn(x, mid, hi) ELSE ISqrtIn(x, lo, mid - 1)

ISqrtIn(x, lo, hi) == IF lo >= hi THEN lo ELSE ISqrtTry(x, lo, hi, (lo + hi + 1) \div 2)

ISqrt(x) == ISqrtIn(x, 0, IF x < 46340 THEN x ELSE 46340)

Ratio(dot, norm) == IF norm = 0 THEN 0 ELSE (1000 * dot) \div norm

\* sklearn.metrics.pairwise.cosine_similarity of two vectors, in thousandths;
\* a zero vector is similar to nothing.
CosineSimilarity(u, v) == Ratio(Dot(u, v), ISqrt(Dot(u, u) * Dot(v, v)))

\* ------------------------------------------------------------ numpy slicing
\* np.argsort(a): the indices of a in ascending order of their values. The default
\* kind is not a stable sort by contract: equal values come out in index order in a
\* build whose sort is stable on the array, and in another order otherwise (the
\* model's other order is the reverse). The build decides, not the call.
SortsBefore(a, stable, i, j) ==
    \/ a[i] < a[j]
    \/ a[i] = a[j] /\ (IF stable THEN i < j ELSE i > j)

SortRank(a, stable, i) == 1 + Cardinality({j \in 1..Len(a) : SortsBefore(a, stable, j, i)})

ArgSort(a, stable) ==
    [r \in 1..Len(a) |-> CHOOSE i \in 1..Len(a) : SortRank(a, stable, i) = r]

\* a[-k:] for k >= 1: the last k elements, all of a when it has fewer
LastK(a, k) == IF Len(a) <= k THEN a ELSE SubSeq(a, Len(a) - k + 1, Len(a))

\* ----------------------------------------------------------- TfidfRetriever
DocTexts(documents) == [i \in 1..Len(documents) |-> documents[i].page_content]

\* The retriever object once the vectorizer is fitted.
Fitted(doc_texts, vocabulary, idf, k, of) ==
    [raised       |-> "",
     of           |-> of,
     k            |-> k,
     doc_texts    |-> doc_texts,
     vocabulary   |-> vocabulary,
     idf          |-> idf,
     tfidf_matrix |-> [i \in 1..Len(doc_texts) |-> TfidfVector(doc_texts[i], vocabulary, idf)]]

\* fit_transform raises ValueError when no feature is left (an empty vocabulary).
FitTransform(doc_texts, vocabulary, k, of) ==
    IF vocabulary = {}
    THEN [raised |-> "ValueError"]
    ELSE Fitted(doc_texts, vocabulary, [t \in vocabulary |-> Idf(t, doc_texts)], k, of)

\* TfidfRetriever.__init__(documents, k). self.documents is the list passed in, not
\* a copy: the model keeps the kind whose list it is (of) and reads that list when
\* the retriever is used. doc_texts and tfidf_matrix are built here, once.
TfidfRetrieverInit(documents, k, of) ==
    FitTransform(DocTexts(documents), FitVocabulary(DocTexts(documents)), k, of)

CosineRows(query_vec, matrix) ==
    [i \in 1..Len(matrix) |-> CosineSimilarity(query_vec, matrix[i])]

\* similarities = cosine_similarity(query_vec, self.tfidf_matrix).flatten()
Similarities(r, query) == CosineRows(TfidfVector(query, r.vocabulary, r.idf), r.tfidf_matrix)

\* A variant of the selection that leaves the slice in ascending order.
TopIndices_NoReverse(r, query, stable) == LastK(ArgSort(Similarities(r, query), stable), r.k)

\* top_indices = np.argsort(similarities)[-self.k:][::-1]
TopIndices(r, query, stable) == Reverse(LastK(ArgSort(Similarities(r, query), stable), r.k))

\* [self.documents[i] for i in top_indices]
Take(documents, top_indices) == [j \in 1..Len(top_indices) |-> documents[top_indices[j]]]

\* TfidfRetriever.get_relevant_documents: documents is the list self.documents names
GetRelevantDocuments(r, documents, query, stable) ==
    Take(documents, TopIndices(r, query, stable))

\* -------------------------------------------------------- DocumentProcessor
\* A dict: a function on the keys it holds.
EmptyDict == [x \in {} |-> x]

DictPut(d, key, value) == [x \in DOMAIN d \cup {key} |-> IF x = key THEN value ELSE d[x]]

\* DocumentProcessor.__init__: the fields of a new instance. qa_chains is a dict
\* whose key order matters (query falls back to its first key): keys is that order.
NewProcessor ==
    [document_metadata |-> [k \in Kinds |-> << >>],
     documents_by_type |-> [k \in Kinds |-> << >>],
     retrievers        |-> EmptyDict,
     qa_chains         |-> [keys |-> << >>, chain |-> EmptyDict],
     router_chain      |-> 0]

\* The kind an extension names, or "ValueError".
LoaderFor(ext) ==
    IF ext = Spell["pdf"] THEN "pdf"
    ELSE IF ext = Spell["docx"] THEN "docx"
    ELSE IF ext = Spell["csv"] THEN "csv"
    ELSE "ValueError"

\* _get_loader_for_file: ext = filepath.split('.')[-1].lower()
GetLoaderForFile(filepath) == LoaderFor(Lower(LastField(filepath, ".")))

\* `self.retrievers[doc_type] | format_docs` needs the left operand to define
\* __or__ or the right one __ror__. class TfidfRetriever has no base class and
\* defines __init__, get_relevant_documents and invoke only, and format_docs is a
\* plain function: the expression raises TypeError.
RetrieverSupportsPipe == FALSE

\* self.qa_chains[doc_type] = chain: a new key goes last, a known key keeps its place
PutChain(qa_chains, doc_type, chain) ==
    [keys  |-> IF doc_type \in DOMAIN qa_chains.chain
               THEN qa_chains.keys
               ELSE Append(qa_chains.keys, doc_type),
     chain |-> DictPut(qa_chains.chain, doc_type, chain)]

\* _create_qa_chain_for_type: [raised, dp]. The chain is built around the retriever
\* object that self.retrievers[doc_type] names when the chain is built.
CreateQaChainForType(m, doc_type) ==
    IF ~RetrieverSupportsPipe
    THEN [raised |-> "TypeError", dp |-> m]
    ELSE [raised |-> "",
          dp     |-> [m EXCEPT !.qa_chains =
                          PutChain(@, doc_type, [retriever |-> m.retrievers[doc_type]])]]

\* k = 10 if doc_type == 'csv' else 5
KFor(doc_type) == IF doc_type = "csv" THEN K_CSV ELSE K_DEFAULT

\* self.retrievers[doc_type] = TfidfRetriever(docs, k=k), then the chain: [raised, dp]
InstallRetriever(m, doc_type, r) ==
    IF r.raised # ""
    THEN [raised |-> r.raised, dp |-> m]
    ELSE CreateQaChainForType([m EXCEPT !.retrievers = DictPut(@, doc_type, r)], doc_type)

\* A variant of _rebuild_retriever that keeps a retriever the kind already has.
RebuildRetriever_KeepsOld(m, doc_type) ==
    IF m.documents_by_type[doc_type] = << >>
    THEN [raised |-> "", dp |-> m]
    ELSE IF doc_type \in DOMAIN m.retrievers
    THEN CreateQaChainForType(m, doc_type)
    ELSE InstallRetriever(m, doc_type,
             TfidfRetrieverInit(m.documents_by_type[doc_type], KFor(doc_type), doc_type))

\* A variant of _rebuild_retriever that fits whatever the list holds.
Unguarded(doc_texts, vocabulary, k, of) ==
    Fitted(doc_texts, vocabulary, [t \in vocabulary |-> Idf(t, doc_texts)], k, of)

RebuildRetriever_NoGuard(m, doc_type) ==
    IF m.documents_by_type[doc_type] = << >>
    THEN InstallRetriever(m, doc_type,
             Unguarded(<< >>, {}, KFor(doc_type), doc_type))
    ELSE InstallRetriever(m, doc_type,
             TfidfRetrieverInit(m.documents_by_type[doc_type], KFor(doc_type), doc_type))

\* _rebuild_retriever: [raised, dp]
RebuildRetriever(m, doc_type) ==
    IF m.documents_by_type[doc_type] = << >>
    THEN [raised |-> "", dp |-> m]
    ELSE InstallRetriever(m, doc_type,
             TfidfRetrieverInit(m.documents_by_type[doc_type], KFor(doc_type), doc_type))

\* self.router_chain is None (0) or the chain create_router assigned: the n-th one
\* this instance was given (n).
HasRouter(m) == m.router_chain # 0

\* create_router
CreateRouter(m) == [m EXCEPT !.router_chain = @ + 1]

\* A variant that creates the router whether or not there is one.
EnsureRouter_Always(m) == CreateRouter(m)

\* if not self.router_chain: self.create_router()
EnsureRouter(m) == IF HasRouter(m) THEN m ELSE CreateRouter(m)

\* A variant that leaves the loader's Documents as they came, without the two keys.
Tagged_AsLoaded(pages, doc_type, filename) ==
    [i \in 1..Len(pages) |->
        [page_content |-> pages[i],
         seq_no       |-> i,
         doc_type     |-> "",
         filename     |-> << >>]]

\* The loader's Documents with doc_type and filename added to their metadata;
\* seq_no is the position (row, page) the loader gave each one.
Tagged(pages, doc_type, filename) ==
    [i \in 1..Len(pages) |->
        [page_content |-> pages[i],
         seq_no       |-> i,
         doc_type     |-> doc_type,
         filename     |-> filename]]

\* A variant of the store that replaces the kind's list by the new file's units.
Store_Replaces(m, doc_type, docs, filename) ==
    [m EXCEPT
        !.documents_by_type[doc_type] = docs,
        !.document_metadata[doc_type] =
            IF filename \in Range(@) THEN @ ELSE Append(@, filename)]

\* documents_by_type[doc_type].extend(docs), and the file name noted once
Store(m, doc_type, docs, filename) ==
    [m EXCEPT
        !.documents_by_type[doc_type] = @ \o docs,
        !.document_metadata[doc_type] =
            IF filename \in Range(@) THEN @ ELSE Append(@, filename)]

\* The end of process_file's try block: the router, return True; or the except
\* clause, which returns False and leaves what was done so far.
AfterRebuild(rebuilt) ==
    IF rebuilt.raised # ""
    THEN [dp |-> rebuilt.dp, ret |-> FALSE, why |-> rebuilt.raised]
    ELSE [dp |-> EnsureRouter(rebuilt.dp), ret |-> TRUE, why |-> ""]

\* process_file's try block once the loader's kind is known
ProcessAs(m, f, doc_type) ==
    IF doc_type = "ValueError"
    THEN [dp |-> m, ret |-> FALSE, why |-> "ValueError: unsupported"]
    ELSE IF Load[f].raised
    THEN [dp |-> m, ret |-> FALSE, why |-> "LoadError"]
    ELSE AfterRebuild(
             RebuildRetriever(
                 Store(m, doc_type,
                       Tagged(Load[f].pages, doc_type, Basename(Path[f])),
                       Basename(Path[f])),
                 doc_type))

\* process_file(filepath) on manager m, stored being the files that exist:
\* [dp, ret, why], why naming what made it return False.
ProcessFileOn(m, f, stored) ==
    IF f \notin stored
    THEN [dp |-> m, ret |-> FALSE, why |-> "missing"]
    ELSE ProcessAs(m, f, GetLoaderForFile(Path[f]))

\* get_document_count
GetDocumentCount(m) == [k \in Kinds |-> Len(m.document_metadata[k])]

SumCounts(counts) == SumSeq([i \in 1..Len(KindOrder) |-> counts[KindOrder[i]]])

\* get_total_document_count
GetTotalDocumentCount(m) == SumCounts(GetDocumentCount(m))

\* has_documents
HasDocuments(m) == SumCounts([k \in Kinds |-> Len(m.document_metadata[k])]) > 0

\* glob.glob(f"{directory}/*.{ext}"): the stored files whose name ends in "." ext,
\* letter case as written, and does not start with a dot
EndsWith(name, suffix) ==
    /\ Len(name) > Len(suffix)
    /\ SubSeq(name, Len(name) - Len(suffix) + 1, Len(name)) = suffix
    /\ Head(name) # "."

GlobMatches(f, ext) == EndsWith(Basename(Path[f]), <<".">> \o Spell[ext])

Glob(stored, ext) == {f \in stored : GlobMatches(f, ext)}

\* The orders in which load_documents can meet the files: kinds in the order of its
\* loop, the files of one kind in whatever order the directory lists them.
GlobOrders(stored) ==
    {p1 \o p2 \o p3 : p1 \in Perms(Glob(stored, KindOrder[1])),
                      p2 \in Perms(Glob(stored, KindOrder[2])),
                      p3 \in Perms(Glob(stored, KindOrder[3]))}

\* The loop of load_documents over the files in the order given:
\* [dp, rets], rets[i] what process_file returned for order[i].
RECURSIVE LoadLoop(_, _, _, _)
\* A variant of the loop's step that leaves the loop when a file is refused.
LoadNext_StopsAtFailure(one, order, stored, rets) ==
    IF one.ret
    THEN LoadLoop(one.dp, Tail(order), stored, Append(rets, one.ret))
    ELSE [dp |-> one.dp, rets |-> Append(rets, one.ret)]

LoadNext(one, order, stored, rets) ==
    LoadLoop(one.dp, Tail(order), stored, Append(rets, one.ret))

LoadLoop(m, order, stored, rets) ==
    IF order = << >>
    THEN [dp |-> m, rets |-> rets]
    ELSE LoadNext(ProcessFileOn(m, Head(order), stored), order, stored, rets)

\* counts[ext] += 1 for each file of the kind's glob that process_file accepted
Counted(done, order) ==
    [dp     |-> done.dp,
     rets   |-> done.rets,
     counts |-> [ext \in Kinds |->
                    Cardinality({i \in 1..Len(done.rets) :
                        GlobMatches(order[i], ext) /\ done.rets[i]})]]

\* load_documents (the upload directory exists: app.py creates it at import):
\* [dp, rets, counts]
LoadDocuments(m, order, stored) == Counted(LoadLoop(m, order, stored, << >>), order)

Initialized(loaded) ==
    [dp |-> loaded.dp, rets |-> loaded.rets, counts |-> loaded.counts,
     ret |-> SumCounts(loaded.counts) # 0]

\* initialize: [dp, rets, counts, ret]
InitializeOn(m, order, stored) == Initialized(LoadDocuments(m, order, stored))

\* ---------------------------------------------------------------- query
\* What the language model can do when the router chain asks it for a kind: answer
\* with some text, or fail.
RouterOutputs ==
    {[raised |-> FALSE, text |-> t] :
        t \in { <<"p", "d", "f">>, <<" ", "C", "S", "V", "\n">>, <<"d", "o", "c", "x">>,
                <<"x", "l", "s">>, << >> }}
    \cup {[raised |-> TRUE, text |-> << >>]}

\* What it can do when a QA chain asks it for an answer.
LlmOutputs == {[raised |-> FALSE, text |-> "an answer"], [raised |-> TRUE, text |-> ""]}

NotInitialized == "No documents loaded. Please upload documents first."

\* The retriever step of a chain: the retriever the chain was built around, over
\* the list that retriever's documents field names.
ChainRetrieve(m, r, question, stable) ==
    GetRelevantDocuments(r, m.documents_by_type[r.of], question, stable)

\* qa_chains[doc_type].invoke(question): retrieve the context, then the model
\* answers or fails. [raised, answer, context]
ChainInvoke(m, doc_type, question, llm, stable) ==
    [raised  |-> IF llm.raised THEN "ModelError" ELSE "",
     answer  |-> llm.text,
     context |-> ChainRetrieve(m, m.qa_chains.chain[doc_type].retriever, question, stable)]

\* A variant of the validation that falls back to the last key.
Validate_LastKey(qa_chains, token) ==
    IF \E k \in DOMAIN qa_chains.chain : Spell[k] = token
    THEN CHOOSE k \in DOMAIN qa_chains.chain : Spell[k] = token
    ELSE qa_chains.keys[Len(qa_chains.keys)]

\* if doc_type not in self.qa_chains: doc_type = list(self.qa_chains.keys())[0]
Validate(qa_chains, token) ==
    IF \E k \in DOMAIN qa_chains.chain : Spell[k] = token
    THEN CHOOSE k \in DOMAIN qa_chains.chain : Spell[k] = token
    ELSE qa_chains.keys[1]

\* The end of query's try block: the chain has run; raised is what it raised, if
\* anything, and result is what `return` gives otherwise.
Reply(m, question, doc_type, answered) ==
    [dp      |-> m,
     calls   |-> <<"router", "retriever", "llm">>,
     context |-> answered.context,
     raised  |-> answered.raised,
     result  |-> [success  |-> TRUE,
                  answer   |-> answered.answer,
                  doc_type |-> doc_type,
                  question |-> question]]

Answer(m, question, doc_type, llm, stable) ==
    Reply(m, question, doc_type, ChainInvoke(m, doc_type, question, llm, stable))

\* A variant of Route without the fallback: an unknown kind is a KeyError.
Route_NoFallback(m, question, router, llm, stable) ==
    IF router.raised
    THEN [dp |-> m, calls |-> <<"router">>, context |-> << >>,
          raised |-> "ModelError", result |-> << >>]
    ELSE IF \A k \in DOMAIN m.qa_chains.chain : Spell[k] # Lower(Strip(router.text))
    THEN [dp |-> m, calls |-> <<"router">>, context |-> << >>,
          raised |-> "KeyError", result |-> << >>]
    ELSE Answer(m, question, Validate(m.qa_chains, Lower(Strip(router.text))),
                llm, stable)

\* query's try block, the router in place: [dp, calls, context, raised, result]
Route(m, question, router, llm, stable) ==
    IF router.raised
    THEN [dp |-> m, calls |-> <<"router">>, context |-> << >>,
          raised |-> "ModelError", result |-> << >>]
    ELSE Answer(m, question, Validate(m.qa_chains, Lower(Strip(router.text))),
                llm, stable)

\* A variant of ExceptClause that lets the exception leave query.
ExceptClause_Propagates(tried) ==
    [dp      |-> tried.dp,
     calls   |-> tried.calls,
     context |-> tried.context,
     result  |-> IF tried.raised # ""
                 THEN [raised |-> tried.raised]
                 ELSE tried.result]

\* except Exception as e: return {'success': False, 'error': str(e)}
ExceptClause(tried) ==
    [dp      |-> tried.dp,
     calls   |-> tried.calls,
     context |-> tried.context,
     result  |-> IF tried.raised # ""
                 THEN [success |-> FALSE, error |-> tried.raised]
                 ELSE tried.result]

\* A variant of query that creates the router before it looks for chains.
QueryOn_RouterFirst(m, question, router, llm, stable) ==
    IF m.qa_chains.keys = << >>
    THEN [dp |-> CreateRouter(m), calls |-> << >>, context |-> << >>,
          result |-> [success |-> FALSE, error |-> NotInitialized]]
    ELSE ExceptClause(Route(EnsureRouter(m), question, router, llm, stable))

\* query(question), given what the model does for the router and for the chain:
\* [dp, result, calls, context]; calls lists what was invoked, in order. An
\* exception that left query would show as a result [raised |-> ...].
QueryOn(m, question, router, llm, stable) ==
    IF m.qa_chains.keys = << >>
    THEN [dp |-> m, calls |-> << >>, context |-> << >>,
          result |-> [success |-> FALSE, error |-> NotInitialized]]
    ELSE ExceptClause(Route(EnsureRouter(m), question, router, llm, stable))

\* A variant of the retrieval that adds the query's terms to the fitted vocabulary.
Widened(r, terms) ==
    Fitted(r.doc_texts, r.vocabulary \cup terms,
           [t \in r.vocabulary \cup terms |-> IF t \in r.vocabulary THEN r.idf[t] ELSE 10],
           r.k, r.of)

RetrieveOn_Refits(m, kind, query, stable) ==
    [dp           |-> [m EXCEPT !.retrievers[kind] = Widened(@, Range(Analyze(query)))],
     similarities |-> Similarities(m.retrievers[kind], query),
     top_indices  |-> TopIndices(m.retrievers[kind], query, stable),
     documents    |-> GetRelevantDocuments(m.retrievers[kind],
                          m.documents_by_type[m.retrievers[kind].of], query, stable)]

\* retrievers[kind].get_relevant_documents(query) called on manager m:
\* [dp, similarities, top_indices, documents]. Nothing is assigned: the vectorizer
\* transforms the query under the vocabulary it was fitted with.
RetrieveOn(m, kind, query, stable) ==
    [dp           |-> m,
     similarities |-> Similarities(m.retrievers[kind], query),
     top_indices  |-> TopIndices(m.retrievers[kind], query, stable),
     documents    |-> GetRelevantDocuments(m.retrievers[kind],
                          m.documents_by_type[m.retrievers[kind].of], query, stable)]

\* ------------------------------------------------------------------ actions
DirectCalls == Cardinality({i \in 1..Len(log) : ~log[i].batch})

WithinUnits(m) == \A k \in Kinds : Len(m.documents_by_type[k]) <= MaxUnits

ProcessFileDone(f, done) ==
    /\ WithinUnits(done.dp)
    /\ dp' = done.dp
    /\ log' = Append(log, [file |-> f, ret |-> done.ret, batch |-> FALSE])
    /\ last' = [op |-> "process_file", file |-> f, ret |-> done.ret, why |-> done.why]

\* doc_processor.process_file(path of f)
ProcessFile(f) ==
    /\ DirectCalls < MaxCalls
    /\ ProcessFileDone(f, ProcessFileOn(dp, f, uploads))
    /\ UNCHANGED <<uploads, sort_stable>>
    /\ UNCHANGED appvars

InitializeDone(order, done) ==
    /\ dp' = done.dp
    /\ log' = [i \in 1..Len(done.rets) |->
                  [file |-> order[i], ret |-> done.rets[i], batch |-> TRUE]]
    /\ last' = [op |-> "initialize", order |-> order, rets |-> done.rets,
                counts |-> done.counts, ret |-> done.ret]

\* doc_processor.initialize() on the new instance, as its callers use it
Initialize ==
    /\ log = << >>
    /\ dp = NewProcessor
    /\ \E order \in GlobOrders(uploads) :
          InitializeDone(order, InitializeOn(dp, order, uploads))
    /\ UNCHANGED <<uploads, sort_stable>>
    /\ UNCHANGED appvars

\* What the caller of the model saw: nothing if the model was not asked.
Heard(calls, who, outcome) ==
    IF who \in Range(calls)
    THEN [asked |-> TRUE, raised |-> outcome.raised, text |-> outcome.text]
    ELSE [asked |-> FALSE]

QueryDone(question, router, llm, done) ==
    /\ dp' = done.dp
    /\ last' = [op |-> "query", question |-> question,
                router |-> Heard(done.calls, "router", router),
                llm    |-> Heard(done.calls, "llm", llm),
                result |-> done.result, calls |-> done.calls, context |-> done.context]

\* The model's behaviours worth telling apart: all of them when the manager has a
\* chain, one when it has none and the call cannot come to the model.
Reachable(m, outcomes) ==
    IF m.qa_chains.keys = << >>
    THEN {CHOOSE o \in outcomes : ~o.raised}
    ELSE outcomes

\* doc_processor.query(question); router and llm are what the language model does
\* if the router chain and the QA chain ask it
Query(question) ==
    /\ \E router \in Reachable(dp, RouterOutputs), llm \in Reachable(dp, LlmOutputs) :
          QueryDone(question, router, llm,
                    QueryOn(dp, question, router, llm, sort_stable))
    /\ UNCHANGED <<uploads, sort_stable, log>>
    /\ UNCHANGED appvars

RetrieveDone(kind, query, done) ==
    /\ dp' = done.dp
    /\ last' = [op |-> "get_relevant_documents", kind |-> kind, query |-> query,
                similarities |-> done.similarities,
                top_indices  |-> done.top_indices,
                documents    |-> done.documents]

\* doc_processor.retrievers[kind].get_relevant_documents(query)
Retrieve(kind, query) ==
    /\ kind \in DOMAIN dp.retrievers
    /\ RetrieveDone(kind, query, RetrieveOn(dp, kind, query, sort_stable))
    /\ UNCHANGED <<uploads, sort_stable, log>>
    /\ UNCHANGED appvars

\* app.py, lines 27-28: doc_processor = None, processor_initialized = False
NoApp == [doc_processor |-> "None", processor_initialized |-> FALSE]

\* No process_file call is under way.
NoCall == [file |-> "", doc_type |-> ""]

\* The threads of the development server that handle an upload request each.
Threads == {1, 2}

\* A thread that has not read its request yet.
Waiting == [pc |-> "wait", files |-> << >>, todo |-> << >>, rets |-> << >>, applied |-> {}]

NoThreads == [t \in Threads |-> Waiting]

Init ==
    /\ dp = NewProcessor
    /\ uploads = InitialUploads
    /\ sort_stable \in BOOLEAN
    /\ log = << >>
    /\ last = [op |-> "new"]
    /\ app = NoApp
    /\ served = 0
    /\ running = NoCall
    /\ threads = NoThreads

Next ==
    \/ \E f \in Files : ProcessFile(f)
    \/ Initialize
    \/ \E q \in Questions : Query(q)
    \/ \E k \in Kinds, q \in Questions : Retrieve(k, q)

Spec == Init /\ [][Next]_vars

\* ------------------------------------------- query over managers with chains
\* No state of Spec holds a QA chain (RetrieverSupportsPipe). To exercise query past
\* its first test, SpecQuery starts from managers that hold chains put in place by
\* hand, each around the retriever its kind has, in any key order, and applies
\* query and get_relevant_documents to them.
IngestLists == { << >>, <<"a.csv">>, <<"c.pdf">>, <<"a.csv", "c.pdf">>,
                 <<"c.pdf", "d.PDF", "c.pdf">> }

Ingested(files) == LoadLoop(NewProcessor, files, InitialUploads, << >>).dp

RECURSIVE WithChains(_, _)
WithChains(m, keys) ==
    IF keys = << >> THEN m
    ELSE WithChains(
             [m EXCEPT !.qa_chains =
                 PutChain(@, Head(keys), [retriever |-> m.retrievers[Head(keys)]])],
             Tail(keys))

KeyOrders(S) == UNION {Perms(T) : T \in SUBSET S}

ChainedManagers ==
    UNION {{WithChains([Ingested(files) EXCEPT !.router_chain = router], keys) :
               keys \in KeyOrders(DOMAIN Ingested(files).retrievers),
               router \in {0, 1}} :
           files \in IngestLists}

InitQuery ==
    /\ dp \in ChainedManagers
    /\ uploads = InitialUploads
    /\ sort_stable \in BOOLEAN
    /\ log = << >>
    /\ last = [op |-> "new"]
    /\ app = NoApp
    /\ served = 0
    /\ running = NoCall
    /\ threads = NoThreads

NextQuery ==
    \/ \E q \in Questions : Query(q)
    \/ \E k \in Kinds, q \in Questions : Retrieve(k, q)

SpecQuery == InitQuery /\ [][NextQuery]_vars

\* ------------------------------------------------------------------ app.py
\* MAX_DOCUMENTS = int(os.getenv('MAX_DOCUMENTS', '10')): the deployment's limit
MAX_DOCUMENTS == 2

\* The number of requests followed.
MaxRequests == 3

ALLOWED_EXTENSIONS == {Spell[k] : k \in Kinds}

\* allowed_file: '.' in filename and filename.rsplit('.', 1)[1].lower() in ALLOWED_EXTENSIONS
AllowedFile(filename) ==
    /\ \E i \in 1..Len(filename) : filename[i] = "."
    /\ Lower(LastField(filename, ".")) \in ALLOWED_EXTENSIONS

\* The name a request gives for file f. The names used are made of letters, digits
\* and one dot, which secure_filename returns as they are.
FileName(f) == Basename(Path[f])

IsAllowed(f) == AllowedFile(FileName(f))

\* The file lists of the upload requests followed.
Batches ==
    { <<"a.csv">>, <<"d.PDF">>, <<"notes.txt">>, <<"empty.csv", "notes.txt">>,
      <<"a.csv", "c.pdf", "d.PDF">> }

\* The names of the delete requests followed.
DeleteNames == {"a.csv", "d.PDF", "empty.csv", "gone.csv"}

\* What the upload directory can hold when the application is imported.
InitialStorage == { {}, {"empty.csv", "c.pdf"} }

LimitExceeded == "Document limit exceeded"

\* A variant of the count that never asks the instance.
CurrentCount_Zero(a, m) == 0

\* current_count = 0; if doc_processor: current_count = get_total_document_count()
CurrentCount(a, m) ==
    IF a.doc_processor = "None" THEN 0 ELSE GetTotalDocumentCount(m)

\* A variant of the limit test that refuses a batch that just fits.
OverLimit_AtLimit(a, m, files) == CurrentCount(a, m) + Len(files) >= MAX_DOCUMENTS

\* if current_count + len(files) > MAX_DOCUMENTS
OverLimit(a, m, files) == CurrentCount(a, m) + Len(files) > MAX_DOCUMENTS

\* uploaded_files: the allowed names of the request, in its order, each one saved
UploadedFiles(files) == SelectSeq(files, IsAllowed)

\* if not doc_processor: doc_processor = DocumentProcessor(); processor_initialized = True
WithProcessor(a) ==
    IF a.doc_processor = "None"
    THEN [doc_processor |-> "DocumentProcessor", processor_initialized |-> TRUE]
    ELSE a

\* The end of upload_file: the response after the loop over uploaded_files
Processed(a, loop, stored) ==
    [app      |-> a,
     dp       |-> loop.dp,
     uploads  |-> stored,
     rets     |-> loop.rets,
     response |-> IF \E i \in 1..Len(loop.rets) : loop.rets[i]
                  THEN [success |-> TRUE, status |-> 200,
                        document_count |-> GetDocumentCount(loop.dp)]
                  ELSE [success |-> FALSE, status |-> 500,
                        error |-> "Failed to process files"]]

Refused(a, m, stored, status, error) ==
    [app |-> a, dp |-> m, uploads |-> stored, rets |-> << >>,
     response |-> [success |-> FALSE, status |-> status, error |-> error]]

\* upload_file for a request with the file list files (none with an empty name):
\* [app, dp, uploads, rets, response]
UploadOn(a, m, stored, files) ==
    IF OverLimit(a, m, files)
    THEN Refused(a, m, stored, 400, LimitExceeded)
    ELSE IF UploadedFiles(files) = << >>
    THEN Refused(a, m, stored, 400, "No files were uploaded")
    ELSE Processed(WithProcessor(a),
                   LoadLoop(IF a.doc_processor = "None" THEN NewProcessor ELSE m,
                            UploadedFiles(files),
                            stored \cup Range(UploadedFiles(files)), << >>),
                   stored \cup Range(UploadedFiles(files)))

\* doc_processor = DocumentProcessor(); success = doc_processor.initialize();
\* processor_initialized = success
Replaced(init, stored) ==
    [app     |-> [doc_processor |-> "DocumentProcessor", processor_initialized |-> init.ret],
     dp      |-> init.dp,
     uploads |-> stored,
     ret     |-> init.ret]

Deleted(replaced) ==
    [app |-> replaced.app, dp |-> replaced.dp, uploads |-> replaced.uploads,
     response |-> [success |-> TRUE, status |-> 200]]

\* delete_document(filename), order being the order in which the new instance's
\* load_documents meets the files left: [app, dp, uploads, response]
DeleteOn(a, m, stored, f, order) ==
    IF f \notin stored
    THEN [app |-> a, dp |-> m, uploads |-> stored,
          response |-> [success |-> FALSE, status |-> 404, error |-> "File not found"]]
    ELSE Deleted(Replaced(InitializeOn(NewProcessor, order, stored \ {f}), stored \ {f}))

\* initialize_processor: [app, dp, uploads, ret]
InitializeProcessor(a, m, stored, order) ==
    IF a.processor_initialized
    THEN [app |-> a, dp |-> m, uploads |-> stored, ret |-> TRUE]
    ELSE Replaced(InitializeOn(NewProcessor, order, stored), stored)

NotReady == "System not initialized. Please upload documents first."

Responded(st, answered) ==
    [app |-> st.app, dp |-> answered.dp, uploads |-> st.uploads, response |-> answered.result]

\* The query endpoint after `if not processor_initialized: initialize_processor()`
AskOn(st, question, router, llm, stable) ==
    IF ~st.app.processor_initialized \/ st.app.doc_processor = "None"
    THEN [app |-> st.app, dp |-> st.dp, uploads |-> st.uploads,
          response |-> [success |-> FALSE, status |-> 400, error |-> NotReady]]
    ELSE Responded(st, QueryOn(st.dp, question, router, llm, stable))

\* -------------------------------------------------------------- app actions
Served(done) ==
    /\ app' = done.app
    /\ dp' = done.dp
    /\ uploads' = done.uploads
    /\ served' = served + 1
    /\ UNCHANGED <<sort_stable, log, running, threads>>

UploadDone(files, done) ==
    /\ Served(done)
    /\ last' = [op |-> "upload", files |-> files, rets |-> done.rets,
                response |-> done.response]

\* POST /api/upload
Upload(files) ==
    /\ served < MaxRequests
    /\ UploadDone(files, UploadOn(app, dp, uploads, files))

DeleteDone(f, done) ==
    /\ Served(done)
    /\ last' = [op |-> "delete", file |-> f, response |-> done.response]

\* DELETE /api/documents/<filename>
Delete(f) ==
    /\ served < MaxRequests
    /\ \E order \in GlobOrders(uploads \ {f}) :
          DeleteDone(f, DeleteOn(app, dp, uploads, f, order))

AppQueryDone(question, done) ==
    /\ Served(done)
    /\ last' = [op |-> "ask", question |-> question, response |-> done.response]

AppQueryFrom(question, st) ==
    \E router \in Reachable(st.dp, RouterOutputs), llm \in Reachable(st.dp, LlmOutputs) :
        AppQueryDone(question, AskOn(st, question, router, llm, sort_stable))

\* POST /api/query
AppQuery(question) ==
    /\ served < MaxRequests
    /\ \E order \in GlobOrders(uploads) :
          AppQueryFrom(question, InitializeProcessor(app, dp, uploads, order))

NotInitializedMessage == "System not initialized. Upload documents to get started."

\* status(): the response for the flag a.processor_initialized and the instance m
StatusOn(a, m) ==
    IF ~a.processor_initialized
    THEN [initialized |-> FALSE, message |-> NotInitializedMessage,
          document_count |-> [k \in Kinds |-> 0]]
    ELSE [initialized |-> TRUE, message |-> "System ready",
          document_count |-> GetDocumentCount(m)]

\* GET /api/status
Status ==
    /\ served < MaxRequests
    /\ Served([app |-> app, dp |-> dp, uploads |-> uploads])
    /\ last' = [op |-> "status", response |-> StatusOn(app, dp)]

\* initialize_endpoint after success = initialize_processor(): [app, dp, uploads, response]
InitializeEndpointOn(st) ==
    [app |-> st.app, dp |-> st.dp, uploads |-> st.uploads,
     response |-> IF st.ret
                  THEN [success |-> TRUE, status |-> 200,
                        document_count |-> GetDocumentCount(st.dp)]
                  ELSE [success |-> FALSE, status |-> 500,
                        error |-> "Failed to initialize system"]]

InitializeEndpointDone(done) ==
    /\ Served(done)
    /\ last' = [op |-> "init", response |-> done.response]

\* POST /api/initialize
InitializeEndpoint ==
    /\ served < MaxRequests
    /\ \E order \in GlobOrders(uploads) :
          InitializeEndpointDone(InitializeEndpointOn(InitializeProcessor(app, dp, uploads, order)))

\* The application imported by the server, the upload directory as it was left.
InitApp ==
    /\ dp = NewProcessor
    /\ uploads \in InitialStorage
    /\ sort_stable \in BOOLEAN
    /\ log = << >>
    /\ last = [op |-> "new"]
    /\ app = NoApp
    /\ served = 0
    /\ running = NoCall
    /\ threads = NoThreads

NextApp ==
    \/ \E files \in Batches : Upload(files)
    \/ \E f \in DeleteNames : Delete(f)
    \/ \E q \in Questions : AppQuery(q)
    \/ Status
    \/ InitializeEndpoint

SpecApp == InitApp /\ [][NextApp]_vars

\* The application imported with an empty upload directory.
InitFresh ==
    /\ InitApp
    /\ uploads = {}

SpecFresh == InitFresh /\ [][NextApp]_vars

\* Upload and delete requests only.
NextStore ==
    \/ \E files \in Batches : Upload(files)
    \/ \E f \in DeleteNames : Delete(f)

SpecStore == InitFresh /\ [][NextStore]_vars

\* --------------------------------------- upload_file on two threads at once
\* The file lists of the two concurrent requests.
ThreadBatches == { <<"a.csv">>, <<"a.csv", "c.pdf">>, <<"empty.csv", "d.PDF">> }

At(t, pc) == threads[t].pc = pc

Step(t, th) ==
    /\ threads' = [threads EXCEPT ![t] = th]
    /\ UNCHANGED <<sort_stable, log, last, served, running>>

\* Lines 166-175: the count is read and compared; a refused request is over.
UploadCheck(t, files) ==
    /\ At(t, "wait")
    /\ Step(t, [threads[t] EXCEPT
                  !.pc = IF OverLimit(app, dp, files) THEN "refused" ELSE "save",
                  !.files = files])
    /\ UNCHANGED <<dp, uploads, app>>

\* Lines 177-201: the allowed files are saved; without any the request is over.
UploadSave(t) ==
    /\ At(t, "save")
    /\ uploads' = uploads \cup Range(UploadedFiles(threads[t].files))
    /\ Step(t, [threads[t] EXCEPT
                  !.pc = IF UploadedFiles(threads[t].files) = << >> THEN "refused" ELSE "test",
                  !.todo = UploadedFiles(threads[t].files)])
    /\ UNCHANGED <<dp, app>>

\* Line 206: if not doc_processor
UploadTest(t) ==
    /\ At(t, "test")
    /\ Step(t, [threads[t] EXCEPT
                  !.pc = IF app.doc_processor = "None" THEN "create" ELSE "process"])
    /\ UNCHANGED <<dp, uploads, app>>

\* Lines 207-208: doc_processor = DocumentProcessor(); processor_initialized = True
UploadCreate(t) ==
    /\ At(t, "create")
    /\ dp' = NewProcessor
    /\ app' = [doc_processor |-> "DocumentProcessor", processor_initialized |-> TRUE]
    /\ Step(t, [threads[t] EXCEPT !.pc = "process"])
    /\ UNCHANGED uploads

ProcessedNext(t, one) ==
    /\ dp' = one.dp
    /\ Step(t, [threads[t] EXCEPT
                  !.pc = IF Len(threads[t].todo) = 1 THEN "done" ELSE "process",
                  !.todo = Tail(@),
                  !.rets = Append(@, one.ret),
                  !.applied = IF one.dp = dp THEN @ ELSE @ \cup {Head(threads[t].todo)}])
    /\ UNCHANGED <<uploads, app>>

\* Lines 213-227: one turn of the loop, doc_processor.process_file(filepath) on the
\* instance the global names at that moment.
UploadProcess(t) ==
    /\ At(t, "process")
    /\ ProcessedNext(t, ProcessFileOn(dp, Head(threads[t].todo), uploads))

NextUploads ==
    \E t \in Threads :
        \/ \E files \in ThreadBatches : UploadCheck(t, files)
        \/ UploadSave(t)
        \/ UploadTest(t)
        \/ UploadCreate(t)
        \/ UploadProcess(t)

SpecUploads == InitFresh /\ [][NextUploads]_vars

\* ------------------------------------------------ the full-reinit variant
\* The kind whose glob pattern gave the file.
GlobbedAs(f) == CHOOSE ext \in Kinds : GlobMatches(f, ext)

\* The three loops of the earlier load_documents over the files in the order given:
\* every file of a kind's glob is loaded, its Documents tagged and appended, and
\* counted; a loader's exception leaves load_documents.
RECURSIVE LegacyLoadLoop(_, _)
LegacyLoadLoop(order, done) ==
    IF order = << >> \/ done.raised
    THEN done
    ELSE IF Load[Head(order)].raised
    THEN [done EXCEPT !.raised = TRUE]
    ELSE LegacyLoadLoop(Tail(order),
            [done EXCEPT
                !.documents_by_type[GlobbedAs(Head(order))] =
                    @ \o Tagged(Load[Head(order)].pages, GlobbedAs(Head(order)),
                                Basename(Path[Head(order)])),
                !.counts[GlobbedAs(Head(order))] = @ + 1])

LegacyLoadDocuments(order) ==
    LegacyLoadLoop(order, [documents_by_type |-> [k \in Kinds |-> << >>],
                           counts |-> [k \in Kinds |-> 0],
                           qa_chains |-> {},
                           raised |-> FALSE])

\* The earlier initialize: False when nothing was counted; else a retriever and a QA
\* chain for every kind whose list is not empty.
LegacyInitialize(order) ==
    IF LegacyLoadDocuments(order).raised \/ SumOver(LegacyLoadDocuments(order).counts, Kinds) = 0
    THEN LegacyLoadDocuments(order)
    ELSE [LegacyLoadDocuments(order) EXCEPT
            !.qa_chains = {k \in Kinds : LegacyLoadDocuments(order).documents_by_type[k] # << >>}]

\* ------------------------------------------ process_file beside its readers
\* process_file up to and including line 121 (the units appended to the kind's list,
\* the name recorded): [dp, call, ret, why]; call is NoCall when the call has
\* returned already.
Returned(m, why) == [dp |-> m, call |-> NoCall, ret |-> FALSE, why |-> why]

StoreAs(m, f, doc_type) ==
    IF doc_type = "ValueError"
    THEN Returned(m, "ValueError: unsupported")
    ELSE IF Load[f].raised
    THEN Returned(m, "LoadError")
    ELSE [dp   |-> Store(m, doc_type,
                         Tagged(Load[f].pages, doc_type, Basename(Path[f])),
                         Basename(Path[f])),
          call |-> [file |-> f, doc_type |-> doc_type],
          ret  |-> FALSE,
          why  |-> ""]

ProcessBegin(m, f, stored) ==
    IF f \notin stored
    THEN Returned(m, "missing")
    ELSE StoreAs(m, f, GetLoaderForFile(Path[f]))

\* process_file from line 124 on: the rebuild, the router, the return: [dp, ret, why]
ProcessEnd(m, doc_type) == AfterRebuild(RebuildRetriever(m, doc_type))

\* The files the interleaved calls are followed for.
SwapFiles == {"a.csv", "c.pdf", "d.PDF", "bad.pdf"}

BeginDone(f, begun) ==
    /\ WithinUnits(begun.dp)
    /\ dp' = begun.dp
    /\ running' = begun.call
    /\ log' = IF begun.call = NoCall
              THEN Append(log, [file |-> f, ret |-> begun.ret, batch |-> FALSE])
              ELSE log
    /\ last' = IF begun.call = NoCall
               THEN [op |-> "process_file", file |-> f, ret |-> begun.ret, why |-> begun.why]
               ELSE last

\* One thread's process_file(path of f) as far as line 121
BeginProcessFile(f) ==
    /\ running = NoCall
    /\ Len(log) < MaxCalls
    /\ BeginDone(f, ProcessBegin(dp, f, uploads))
    /\ UNCHANGED <<uploads, sort_stable, app, served, threads>>

EndDone(f, done) ==
    /\ dp' = done.dp
    /\ running' = NoCall
    /\ log' = Append(log, [file |-> f, ret |-> done.ret, batch |-> FALSE])
    /\ last' = [op |-> "process_file", file |-> f, ret |-> done.ret, why |-> done.why]

\* The same call from line 124 to its return
EndProcessFile ==
    /\ running # NoCall
    /\ EndDone(running.file, ProcessEnd(dp, running.doc_type))
    /\ UNCHANGED <<uploads, sort_stable, app, served, threads>>

\* Requests are served by threads: between the two halves of a process_file call
\* another thread can use the instance.
NextSwap ==
    \/ \E f \in SwapFiles : BeginProcessFile(f)
    \/ EndProcessFile
    \/ \E k \in Kinds, q \in Questions : Retrieve(k, q)
    \/ \E q \in Questions : Query(q)

SpecSwap == Init /\ [][NextSwap]_vars

\* ------------------------------------------------------------------ properties
IsQuery(l) == l.op = "query"

\* C1: a query on a manager without any QA chain returns success = False with the
\* "No documents loaded" error, invokes neither the router nor a retriever nor the
\* model, and leaves the manager as it was.
C1_EmptyStateContract ==
    [][(IsQuery(last') /\ dp.qa_chains.keys = << >>)
        => /\ last'.result = [success |-> FALSE, error |-> NotInitialized]
           /\ last'.calls = << >>
           /\ dp' = dp]_vars

\* A query answered on a manager that has ingested nothing.
C1_Witness ==
    /\ IsQuery(last)
    /\ log = << >>
    /\ dp = NewProcessor
    /\ last.result = [success |-> FALSE, error |-> NotInitialized]

RouterMissed(m, l) ==
    /\ l.router.asked
    /\ ~l.router.raised
    /\ \A k \in DOMAIN m.qa_chains.chain : Spell[k] # Lower(Strip(l.router.text))

ModelCallsSucceeded(l) ==
    /\ l.router.asked => ~l.router.raised
    /\ l.llm.asked => ~l.llm.raised

Succeeded(l) == "success" \in DOMAIN l.result /\ l.result.success

\* C2: with at least one QA chain in place, a router answer that (stripped and
\* lower-cased) names no kind with a chain, the model calls succeeding, still gives
\* success = True, and the kind reported is one that has a chain.
C2_FallbackSafety ==
    (IsQuery(last) /\ dp.qa_chains.keys # << >>
        /\ RouterMissed(dp, last) /\ ModelCallsSucceeded(last))
    => /\ Succeeded(last)
       /\ last.result.doc_type \in DOMAIN dp.qa_chains.chain

\* The router named a kind without a chain while another kind has one, and the
\* query was answered from the first chain.
C2_Witness ==
    /\ IsQuery(last)
    /\ RouterMissed(dp, last)
    /\ last.router.text = <<"d", "o", "c", "x">>
    /\ Len(dp.qa_chains.keys) = 2
    /\ Succeeded(last)
    /\ last.result.doc_type = dp.qa_chains.keys[1]

ModelCallFailed(l) ==
    \/ l.router.asked /\ l.router.raised
    \/ l.llm.asked /\ l.llm.raised

\* C3: query always returns a result with a success field; when the router call or
\* the chosen chain fails the result is success = False with an error string; and
\* the corpora, retrievers, chains and file records are what they were before.
C3_QueryNeverRaises ==
    [][IsQuery(last')
        => /\ "success" \in DOMAIN last'.result
           /\ ModelCallFailed(last')
                => /\ ~Succeeded(last')
                   /\ "error" \in DOMAIN last'.result
                   /\ last'.result.error # ""
           /\ dp'.documents_by_type = dp.documents_by_type
           /\ dp'.retrievers = dp.retrievers
           /\ dp'.qa_chains = dp.qa_chains
           /\ dp'.document_metadata = dp.document_metadata
           /\ GetDocumentCount(dp') = GetDocumentCount(dp)]_vars

\* The chosen chain's model call failed and query returned a failure result.
C3_Witness ==
    /\ IsQuery(last)
    /\ last.llm.asked
    /\ last.llm.raised
    /\ last.result = [success |-> FALSE, error |-> "ModelError"]

IsProcessFile(l) == l.op = "process_file"

KindOf(f) == GetLoaderForFile(Path[f])

\* f is there, has a loader, and its loader yields at least one Document
Parses(f, stored) ==
    /\ f \in stored
    /\ KindOf(f) \in Kinds
    /\ ~Load[f].raised
    /\ Load[f].pages # << >>

HasChain(m, k) == k \in DOMAIN m.qa_chains.chain

\* C4: process_file on a file that parses to at least one Document of kind K, the
\* index being built, returns True and leaves a retriever and a QA chain for K and
\* the router, so that a later query can be answered from K.
C4_IngestGivesPipeline ==
    (IsProcessFile(last) /\ Parses(last.file, uploads) /\ last.why # "ValueError")
    => /\ last.ret
       /\ KindOf(last.file) \in DOMAIN dp.retrievers
       /\ HasChain(dp, KindOf(last.file))
       /\ HasRouter(dp)

\* The first process_file of a two-row CSV: False, a retriever, no chain, no router.
C4_Witness ==
    /\ IsProcessFile(last)
    /\ last.file = "a.csv"
    /\ Len(log) = 1
    /\ ~last.ret
    /\ last.why = "TypeError"
    /\ "csv" \in DOMAIN dp.retrievers
    /\ ~HasChain(dp, "csv")
    /\ ~HasRouter(dp)

Globbed(stored) == UNION {Glob(stored, k) : k \in Kinds}

\* C5: process_file returns a boolean and never raises; it returns False for a
\* missing path, an unsupported extension, a loader failure and an index failure;
\* load_documents calls process_file for every file it enumerated, whatever the
\* earlier files returned.
C5_IngestNeverRaises ==
    /\ IsProcessFile(last)
        => /\ last.ret \in BOOLEAN
           /\ (last.file \notin uploads \/ KindOf(last.file) \notin Kinds
                  \/ Load[last.file].raised \/ last.why # "")
                => ~last.ret
    /\ last.op = "initialize"
        => /\ Len(last.rets) = Len(last.order)
           /\ Range(last.order) = Globbed(uploads)
           /\ \A i \in 1..Len(last.rets) : last.rets[i] \in BOOLEAN
           /\ Len(log) = Len(last.order)

\* A batch in which a file was accepted after an earlier file had been refused.
C5_Witness ==
    /\ last.op = "initialize"
    /\ \E i, j \in 1..Len(last.rets) :
          /\ i < j
          /\ last.order[i] = "bad.pdf"
          /\ ~last.rets[i]
          /\ last.rets[j]

Accepted(l, k) == {l[i].file : i \in {j \in 1..Len(l) : l[j].ret /\ KindOf(l[j].file) = k}}

DistinctFiles(l) == \A i, j \in 1..Len(l) : l[i].file = l[j].file => i = j

\* C6: after process_file calls on distinct files, get_document_count()[K] is the
\* number of files of kind K for which process_file returned True, and
\* get_total_document_count() is the number of files for which it returned True,
\* which is the sum of the per-kind counts.
C6_AdmissionMath ==
    DistinctFiles(log)
    => /\ \A k \in Kinds : GetDocumentCount(dp)[k] = Cardinality(Accepted(log, k))
       /\ GetTotalDocumentCount(dp) = Cardinality({log[i].file : i \in {j \in 1..Len(log) : log[j].ret}})
       /\ GetTotalDocumentCount(dp) = SumOver(GetDocumentCount(dp), Kinds)

\* A file whose index could not be built was refused and is counted all the same.
C6_Witness ==
    /\ IsProcessFile(last)
    /\ last.file = "d.PDF"
    /\ Len(log) = 1
    /\ last.why = "ValueError"
    /\ ~last.ret
    /\ GetTotalDocumentCount(dp) = 1

Corpus(m, k) == m.documents_by_type[k]

RowsMatch(r, corpus) ==
    /\ Len(r.tfidf_matrix) = Len(corpus)
    /\ r.doc_texts = DocTexts(corpus)
    /\ \A i \in 1..Len(corpus) :
          r.tfidf_matrix[i] = TfidfVector(corpus[i].page_content, r.vocabulary, r.idf)

\* C7: in every state, for every kind that has a retriever, the retriever's matrix
\* has one row per Document of the kind's current list, row i being the vector of
\* element i; calls that returned False included.
C7_IndexMatchesCorpus ==
    \A k \in DOMAIN dp.retrievers :
        /\ dp.retrievers[k].of = k
        /\ RowsMatch(dp.retrievers[k], Corpus(dp, k))

\* A retriever rebuilt over the units of two files, after a call that returned False.
C7_Witness ==
    /\ IsProcessFile(last)
    /\ ~last.ret
    /\ "pdf" \in DOMAIN dp.retrievers
    /\ {"c.pdf", "d.PDF"} \subseteq {Corpus(dp, "pdf")[i].filename : i \in 1..Len(Corpus(dp, "pdf"))}
    /\ Len(dp.retrievers["pdf"].tfidf_matrix) = 4

BagOf(seq) == [x \in Range(seq) |-> Cardinality({i \in 1..Len(seq) : seq[i] = x})]

\* What a manager holds, the order inside its lists left out.
Membership(m) ==
    [units    |-> [k \in Kinds |-> BagOf(Corpus(m, k))],
     indexed  |-> [k \in DOMAIN m.retrievers |-> BagOf(m.retrievers[k].doc_texts)],
     rows     |-> [k \in DOMAIN m.retrievers |-> BagOf(m.retrievers[k].tfidf_matrix)],
     chains   |-> DOMAIN m.qa_chains.chain,
     counts   |-> GetDocumentCount(m)]

FilesOf(l) == [i \in 1..Len(l) |-> l[i].file]

Rotate(s) == IF s = << >> THEN s ELSE Tail(s) \o <<Head(s)>>

OneBatch(order) == LoadLoop(NewProcessor, order, uploads, << >>).dp

\* C8: the files processed so far, in a first batch and in later calls, leave the
\* same units per kind, the same indexed rows, the same kinds with a retriever and
\* a chain and the same counts as processing the same files in one batch in
\* another order; only the order inside the lists may differ.
C8_OrderInvariance ==
    (IsProcessFile(last) \/ last.op = "initialize")
    => /\ Membership(OneBatch(Reverse(FilesOf(log)))) = Membership(dp)
       /\ Membership(OneBatch(Rotate(FilesOf(log)))) = Membership(dp)

Kept(l, k) == {l[i].file : i \in {j \in 1..Len(l) : Parses(l[j].file, uploads) /\ KindOf(l[j].file) = k}}

\* A batch and then a later call, three different files of one kind stored, the
\* later file's units in the same index as the batch's.
C8_Witness ==
    /\ IsProcessFile(last)
    /\ Len(log) >= 4
    /\ log[1].batch
    /\ ~log[Len(log)].batch
    /\ last.file = "d.PDF"
    /\ Cardinality(Kept(log, "pdf")) >= 2
    /\ Cardinality(Kept(log, "csv")) >= 1
    /\ Len(Corpus(dp, "pdf")) = 4

IsRetrieval(l) == l.op = "get_relevant_documents"

Min(a, b) == IF a < b THEN a ELSE b

\* min(k, n) different units of the list, most similar first, none left out that is
\* more similar than one returned
TopK(l, corpus) ==
    /\ Len(l.documents) = Min(IF l.kind = "csv" THEN 10 ELSE 5, Len(corpus))
    /\ Len(l.top_indices) = Len(l.documents)
    /\ \A i \in 1..Len(l.top_indices) :
          /\ l.top_indices[i] \in 1..Len(corpus)
          /\ l.documents[i] = corpus[l.top_indices[i]]
    /\ \A i, j \in 1..Len(l.top_indices) : l.top_indices[i] = l.top_indices[j] => i = j
    /\ \A i, j \in 1..Len(l.top_indices) :
          i < j => l.similarities[l.top_indices[i]] >= l.similarities[l.top_indices[j]]
    /\ \A x \in (1..Len(corpus)) \ Range(l.top_indices) :
          \A j \in 1..Len(l.top_indices) :
              l.similarities[x] <= l.similarities[l.top_indices[j]]

\* Among equally similar units the smaller index is ranked first and kept.
TiesSmallerFirst(l, corpus) ==
    /\ \A i, j \in 1..Len(l.top_indices) :
          (i < j /\ l.similarities[l.top_indices[i]] = l.similarities[l.top_indices[j]])
          => l.top_indices[i] < l.top_indices[j]
    /\ \A x \in (1..Len(corpus)) \ Range(l.top_indices) :
          \A j \in 1..Len(l.top_indices) :
              l.similarities[x] = l.similarities[l.top_indices[j]] => l.top_indices[j] < x

\* Among equally similar units the larger index is ranked first and kept.
TiesLargerFirst(l, corpus) ==
    /\ \A i, j \in 1..Len(l.top_indices) :
          (i < j /\ l.similarities[l.top_indices[i]] = l.similarities[l.top_indices[j]])
          => l.top_indices[i] > l.top_indices[j]
    /\ \A x \in (1..Len(corpus)) \ Range(l.top_indices) :
          \A j \in 1..Len(l.top_indices) :
              l.similarities[x] = l.similarities[l.top_indices[j]] => l.top_indices[j] > x

FreshAnswer(m, kind, query, stable) ==
    GetRelevantDocuments(TfidfRetrieverInit(Corpus(m, kind), KFor(kind), kind),
                         Corpus(m, kind), query, stable)

\* C10: a retrieval changes nothing in the retriever or the manager, and what it
\* returns is what a retriever newly fitted on the same list with the same k returns
\* for the same query, however many retrievals and queries came before.
C10_RetrievalDeterminism ==
    [][IsRetrieval(last')
        => /\ dp' = dp
           /\ last'.documents = FreshAnswer(dp', last'.kind, last'.query, sort_stable)
           /\ (IsRetrieval(last) /\ last.kind = last'.kind /\ last.query = last'.query)
                => last'.documents = last.documents]_vars

\* A retrieval with a word the vocabulary does not hold, after another retrieval.
C10_Witness ==
    /\ IsRetrieval(last)
    /\ last.query = <<"zed", "the">>
    /\ Len(last.documents) >= 2
    /\ \A t \in Range(Analyze(last.query)) : t \notin dp.retrievers[last.kind].vocabulary

\* C11: a process_file that leaves kind K with an index leaves K with a QA chain
\* (the chain is there from the first file that gave K a unit), and a chain that is
\* there is still there, the same one, after any later call.
C11_PipelineOncePerKind ==
    [][\A k \in Kinds :
          /\ k \in DOMAIN dp'.retrievers => HasChain(dp', k)
          /\ HasChain(dp, k)
                => /\ HasChain(dp', k)
                   /\ dp'.qa_chains.chain[k] = dp.qa_chains.chain[k]]_vars

\* Two files of one kind processed, the index built twice, and no chain.
C11_Witness ==
    /\ IsProcessFile(last)
    /\ Len(log) = 2
    /\ log[1].file = "c.pdf"
    /\ log[2].file = "d.PDF"
    /\ Len(dp.retrievers["pdf"].tfidf_matrix) = 4
    /\ dp.qa_chains.keys = << >>

\* C12: a query issued once a kind's index has been rebuilt is answered through a
\* chain, and the context it retrieves is what the retriever now stored for that
\* kind returns.
C12_QueryUsesCurrentRetriever ==
    (IsQuery(last) /\ DOMAIN dp.retrievers # {})
    => /\ \E i \in 1..Len(last.calls) : last.calls[i] = "retriever"
       /\ \E k \in DOMAIN dp.retrievers :
             last.context = GetRelevantDocuments(dp.retrievers[k], Corpus(dp, k),
                                                 last.question, sort_stable)

\* A query after the same kind's index was rebuilt over a second file: nothing is
\* retrieved.
C12_Witness ==
    /\ IsQuery(last)
    /\ Len(log) = 2
    /\ "csv" \in DOMAIN dp.retrievers
    /\ Len(dp.retrievers["csv"].tfidf_matrix) = 4
    /\ last.calls = << >>
    /\ last.result = [success |-> FALSE, error |-> NotInitialized]

\* C13: a kind whose list is empty has neither a retriever nor a chain, no retriever
\* is fitted over no texts, and every kind with a chain has a retriever.
C13_EmptyCorpusGuard ==
    /\ \A k \in Kinds :
          Corpus(dp, k) = << >> => (k \notin DOMAIN dp.retrievers /\ ~HasChain(dp, k))
    /\ \A k \in DOMAIN dp.retrievers : dp.retrievers[k].doc_texts # << >>
    /\ \A k \in DOMAIN dp.qa_chains.chain : k \in DOMAIN dp.retrievers

\* A file without units was accepted and its kind got no retriever, while another
\* kind has one.
C13_Witness ==
    /\ IsProcessFile(last)
    /\ last.file = "empty.csv"
    /\ last.ret
    /\ Corpus(dp, "csv") = << >>
    /\ "csv" \notin DOMAIN dp.retrievers
    /\ "pdf" \in DOMAIN dp.retrievers

\* C14: the router is created only when there is none, so an instance is given at
\* most one; there is one after every process_file that returned True and after
\* every query that got past the first test; and one that is there stays, the same.
C14_RouterOnce ==
    [][/\ dp'.router_chain \in {0, 1}
       /\ HasRouter(dp) => dp'.router_chain = dp.router_chain
       /\ (IsProcessFile(last') /\ last'.ret) => HasRouter(dp')
       /\ (IsQuery(last') /\ dp.qa_chains.keys # << >>) => HasRouter(dp')
       /\ dp'.router_chain # dp.router_chain => ~HasRouter(dp)]_vars

\* The second accepted file of an instance that already had its router.
C14_Witness ==
    /\ IsProcessFile(last)
    /\ last.ret
    /\ Len(log) >= 2
    /\ \E i \in 1..(Len(log) - 1) : log[i].ret
    /\ dp.router_chain = 1

Recognized(stored) == {f \in stored : KindOf(f) \in Kinds}

TrueCalls(order, rets, k) ==
    Cardinality({i \in 1..Len(rets) : KindOf(order[i]) = k /\ rets[i]})

\* C18: load_documents on a new instance calls process_file once for every file of
\* a recognized kind in the directory, returns per kind the number of those calls
\* that returned True, these counts are get_document_count() afterwards, and
\* initialize returns False exactly when they add up to zero.
C18_DirectoryCounts ==
    last.op = "initialize"
    => /\ Range(last.order) = Recognized(uploads)
       /\ Len(last.order) = Cardinality(Recognized(uploads))
       /\ Len(last.rets) = Len(last.order)
       /\ \A k \in Kinds : last.counts[k] = TrueCalls(last.order, last.rets, k)
       /\ last.counts = GetDocumentCount(dp)
       /\ last.ret = (SumOver(last.counts, Kinds) # 0)

\* An initialize whose returned counts are below the counts the instance reports.
C18_Witness ==
    /\ last.op = "initialize"
    /\ last.ret
    /\ last.counts = [k \in Kinds |-> IF k = "csv" THEN 1 ELSE 0]
    /\ GetDocumentCount(dp)["csv"] = 2
    /\ GetDocumentCount(dp)["pdf"] = 1
    /\ "d.PDF" \in Recognized(uploads) \ Range(last.order)

\* C19: a process_file that returns False leaves the lists, the counts, the
\* retrievers and the chains exactly as they were.
C19_FailedIngestNoTrace ==
    [][(IsProcessFile(last') /\ ~last'.ret)
        => /\ dp'.documents_by_type = dp.documents_by_type
           /\ GetDocumentCount(dp') = GetDocumentCount(dp)
           /\ GetTotalDocumentCount(dp') = GetTotalDocumentCount(dp)
           /\ dp'.retrievers = dp.retrievers
           /\ dp'.qa_chains = dp.qa_chains]_vars

\* A file refused because its index could not be built, its unit stored and its
\* name counted.
C19_Witness ==
    /\ IsProcessFile(last)
    /\ ~last.ret
    /\ last.why = "ValueError"
    /\ Len(log) = 1
    /\ Len(Corpus(dp, "pdf")) = 1
    /\ dp.document_metadata["pdf"] = <<Basename(Path["d.PDF"])>>
    /\ "pdf" \notin DOMAIN dp.retrievers

SameChainKinds(m1, m2) == DOMAIN m1.qa_chains.chain = DOMAIN m2.qa_chains.chain

FallbackOf(m) == m.qa_chains.keys[1]

IsUpload(l) == l.op = "upload"

LimitRefused(l) == "error" \in DOMAIN l.response /\ l.response.error = LimitExceeded

\* C15: an upload request with n files is refused for the limit exactly when the
\* live instance's total count (0 when there is none) plus n exceeds MAX_DOCUMENTS,
\* and a request so refused saves no file, processes none and leaves the instance
\* and the globals as they were.
C15_AdmissionCheck ==
    [][IsUpload(last')
        => /\ LimitRefused(last')
                <=> CurrentCount(app, dp) + Len(last'.files) > MAX_DOCUMENTS
           /\ LimitRefused(last')
                => /\ uploads' = uploads
                   /\ dp' = dp
                   /\ app' = app
                   /\ last'.rets = << >>]_vars

\* A request refused on a live instance, with a file list that an empty instance
\* would have been allowed.
C15_Witness ==
    /\ IsUpload(last)
    /\ LimitRefused(last)
    /\ app.doc_processor = "DocumentProcessor"
    /\ GetTotalDocumentCount(dp) >= 1
    /\ Len(last.files) <= MAX_DOCUMENTS
    /\ GetTotalDocumentCount(dp) + Len(last.files) = MAX_DOCUMENTS + 1

IsDelete(l) == l.op = "delete" /\ l.response.success

SubBag(b1, b2) == \A x \in DOMAIN b1 : x \in DOMAIN b2 /\ b1[x] <= b2[x]

UnitsOf(f) == Range(Tagged(Load[f].pages, KindOf(f), FileName(f)))

Holds(m, f) == UnitsOf(f) \subseteq Range(Corpus(m, KindOf(f)))

Mentions(m, name) ==
    \E k \in Kinds :
        \/ name \in Range(m.document_metadata[k])
        \/ \E i \in 1..Len(Corpus(m, k)) : Corpus(m, k)[i].filename = name

\* C17: after a delete request that succeeded for file f the live instance is a new
\* one initialized from the directory: no list and no count of it mentions f, every
\* index is built from its list, and the units of every file still in the directory
\* are in its lists; in every other step the lists only gain units.
C17_DeleteReplaces ==
    [][/\ IsDelete(last')
            => /\ last'.file \notin uploads'
               /\ ~Mentions(dp', FileName(last'.file))
               /\ \A k \in DOMAIN dp'.retrievers : RowsMatch(dp'.retrievers[k], Corpus(dp', k))
               /\ \E order \in GlobOrders(uploads') :
                     dp' = InitializeOn(NewProcessor, order, uploads').dp
               /\ \A f \in uploads' : Parses(f, uploads') => Holds(dp', f)
       /\ ~IsDelete(last')
            => \A k \in Kinds : SubBag(BagOf(Corpus(dp, k)), BagOf(Corpus(dp', k)))]_vars

\* A file deleted, and the new instance without the unit of a file that is still in
\* the directory and that the old instance held.
C17_Witness ==
    /\ IsDelete(last)
    /\ last.file = "a.csv"
    /\ "d.PDF" \in uploads
    /\ Parses("d.PDF", uploads)
    /\ ~Holds(dp, "d.PDF")
    /\ Corpus(dp, "pdf") = << >>
    /\ app.doc_processor = "DocumentProcessor"

\* The list a retriever's documents field names.
UnitList(m, r) == Corpus(m, r.of)

\* C16: whenever another thread can use it, each published retriever is whole: its
\* unit list and its matrix have the same length and come from the same state of the
\* kind's list; nothing a published retriever refers to is changed in place.
C16_SwapDiscipline ==
    \A k \in DOMAIN dp.retrievers :
        /\ Len(UnitList(dp, dp.retrievers[k])) = Len(dp.retrievers[k].tfidf_matrix)
        /\ DocTexts(UnitList(dp, dp.retrievers[k])) = dp.retrievers[k].doc_texts

\* A retrieval made while a process_file call of the same kind had stored its units
\* and not yet rebuilt: the retriever's list is longer than its matrix.
C16_Witness ==
    /\ running # NoCall
    /\ IsRetrieval(last)
    /\ last.kind = running.doc_type
    /\ last.kind \in DOMAIN dp.retrievers
    /\ Len(UnitList(dp, dp.retrievers[last.kind])) > Len(dp.retrievers[last.kind].tfidf_matrix)
    /\ last.documents = GetRelevantDocuments(dp.retrievers[last.kind],
                            UnitList(dp, dp.retrievers[last.kind]), last.query, sort_stable)

IsNotInitialized(result) == result = [success |-> FALSE, error |-> NotInitialized]

\* C21: in every state the count of kind K is positive exactly when K has a QA
\* chain; so a query returns the "No documents loaded" failure when the total count
\* is zero and does not return it when the total count is positive (has_documents).
C21_CountsAgreeWithChains ==
    /\ \A k \in Kinds : (GetDocumentCount(dp)[k] > 0) <=> HasChain(dp, k)
    /\ HasDocuments(dp) <=> GetTotalDocumentCount(dp) > 0
    /\ IsQuery(last)
          => (IsNotInitialized(last.result) <=> GetTotalDocumentCount(dp) = 0)

\* A query refused as "No documents loaded" by an instance that counts a file
\* which process_file accepted.
C21_Witness ==
    /\ IsQuery(last)
    /\ IsNotInitialized(last.result)
    /\ Len(log) = 1
    /\ log[1].file = "empty.csv"
    /\ log[1].ret
    /\ HasDocuments(dp)
    /\ GetDocumentCount(dp)["csv"] = 1
    /\ dp.qa_chains.keys = << >>

HoldsDocuments(a, m) == a.doc_processor # "None" /\ GetTotalDocumentCount(m) > 0

\* C22: in every state of the application processor_initialized is true exactly
\* when an instance exists and counts at least one document; a status request
\* reports that flag with the instance's counts; after an upload that reported
\* success a status request would report initialized with the instance's counts.
C22_FlagTracksManager ==
    /\ app.processor_initialized <=> HoldsDocuments(app, dp)
    /\ last.op = "status"
          => /\ last.response.initialized <=> HoldsDocuments(app, dp)
             /\ last.response.initialized
                   => last.response.document_count = GetDocumentCount(dp)
    /\ (IsUpload(last) /\ last.response.success)
          => /\ StatusOn(app, dp).initialized
             /\ StatusOn(app, dp).document_count = GetDocumentCount(dp)

\* A status request answered "not initialized" with zero counts although the last
\* instance, made by a delete request, counts a file added by a later upload.
C22_Witness ==
    /\ last.op = "status"
    /\ ~last.response.initialized
    /\ last.response.document_count = [k \in Kinds |-> 0]
    /\ app.doc_processor = "DocumentProcessor"
    /\ GetDocumentCount(dp)["csv"] = 1
    /\ uploads = {"empty.csv"}

\* The units per kind, the counts and the kinds with a QA chain of an instance.
Holding(m) ==
    [units  |-> [k \in Kinds |-> BagOf(Corpus(m, k))],
     counts |-> GetDocumentCount(m),
     chains |-> DOMAIN m.qa_chains.chain]

LegacyHolding(old) ==
    [units  |-> [k \in Kinds |-> BagOf(old.documents_by_type[k])],
     counts |-> old.counts,
     chains |-> old.qa_chains]

\* C23: after upload and delete requests the instance in use holds, per kind, the
\* units, the count and the QA chains of a new instance initialized from the upload
\* directory as it is, and those the earlier full-reinit variant would hold.
C23_IncrementalIsFullReinit ==
    (app.doc_processor # "None" /\ last.op \in {"upload", "delete"})
    => \A order \in GlobOrders(uploads) :
          /\ Holding(dp) = Holding(InitializeOn(NewProcessor, order, uploads).dp)
          /\ ~LegacyInitialize(order).raised
                => Holding(dp) = LegacyHolding(LegacyInitialize(order))

\* The same CSV uploaded twice: its two rows are in the list twice, counted once,
\* where a new instance would hold them once.
C23_Witness ==
    /\ IsUpload(last)
    /\ last.files = <<"a.csv">>
    /\ uploads = {"a.csv"}
    /\ Len(Corpus(dp, "csv")) = 4
    /\ GetDocumentCount(dp)["csv"] = 1
    /\ \A order \in GlobOrders(uploads) :
          /\ Len(Corpus(InitializeOn(NewProcessor, order, uploads).dp, "csv")) = 2
          /\ Len(LegacyInitialize(order).documents_by_type["csv"]) = 2

\* C24: from an empty upload directory and no instance, after any sequence of
\* status, initialize, query, upload and delete requests served one at a time, the
\* total count of the instance in use is at most MAX_DOCUMENTS.
C24_DocumentLimit ==
    /\ GetTotalDocumentCount(dp) <= MAX_DOCUMENTS
    /\ app.doc_processor = "None" => GetTotalDocumentCount(dp) = 0

\* An upload refused for the limit by an instance that counts MAX_DOCUMENTS files.
C24_Witness ==
    /\ IsUpload(last)
    /\ last.response.status = 400
    /\ last.response.error = LimitExceeded
    /\ app.doc_processor = "DocumentProcessor"
    /\ GetTotalDocumentCount(dp) = MAX_DOCUMENTS
    /\ served = MaxRequests

Over(t) == threads[t].pc \in {"done", "refused"}

\* C25: when two upload requests are handled on two threads, their steps interleaved
\* in any way, the total count never exceeds MAX_DOCUMENTS and, both being over,
\* the instance in use counts every file either request had process_file store.
C25_ConcurrentAdmission ==
    /\ GetTotalDocumentCount(dp) <= MAX_DOCUMENTS
    /\ (\A t \in Threads : Over(t))
          => \A t \in Threads : \A f \in threads[t].applied : Mentions(dp, FileName(f))

\* Both requests passed the test of the limit before either stored anything, and the
\* instance counts the files of both.
C25_Witness ==
    /\ \A t \in Threads : At(t, "done")
    /\ threads[1].files = <<"a.csv", "c.pdf">>
    /\ threads[2].files = <<"empty.csv", "d.PDF">>
    /\ GetTotalDocumentCount(dp) = 4
    /\ MAX_DOCUMENTS < 4

\* The second request made its instance after the first had processed its file: the
\* first request's file is stored in an instance nothing refers to any more.
C25_Discarded ==
    /\ \A t \in Threads : At(t, "done")
    /\ threads[1].applied = {"a.csv"}
    /\ threads[2].applied = {"empty.csv", "d.PDF"}
    /\ ~Mentions(dp, FileName("a.csv"))
    /\ GetTotalDocumentCount(dp) = 2

\* The file a unit says it came from, with the kind its lower-cased extension names.
ParsedFrom(unit, f, k) ==
    /\ unit.filename = Basename(Path[f])
    /\ Lower(LastField(Basename(Path[f]), ".")) = Spell[k]
    /\ ~Load[f].raised
    /\ unit.seq_no \in 1..Len(Load[f].pages)
    /\ unit.page_content = Load[f].pages[unit.seq_no]

\* C26: in every state every Document in the list of kind K has doc_type = K and
\* as filename the base name of a file it was loaded from, K being the kind named
\* by that file's lower-cased extension.
C26_ProvenanceTagging ==
    \A k \in Kinds : \A i \in 1..Len(Corpus(dp, k)) :
        /\ Corpus(dp, k)[i].doc_type = k
        /\ \E f \in Files : ParsedFrom(Corpus(dp, k)[i], f, k)

\* The page of d.PDF in the pdf list, tagged pdf and d.PDF, beside a page of c.pdf.
C26_Witness ==
    /\ IsProcessFile(last)
    /\ \E i, j \in 1..Len(Corpus(dp, "pdf")) :
          /\ Corpus(dp, "pdf")[i].filename = <<"d", ".", "P", "D", "F">>
          /\ Corpus(dp, "pdf")[i].doc_type = "pdf"
          /\ Corpus(dp, "pdf")[j].filename = <<"c", ".", "p", "d", "f">>
    /\ Corpus(dp, "csv") = << >>

====
